---- MODULE Spec2Model ----
(***************************************************************************)
(* A model of namer's file-name parser (namer/fileinfo.py) and of its     *)
(* template formatter (namer/name_formatter.py).                          *)
(*                                                                         *)
(* Text is a sequence of one-character strings, so that the regular       *)
(* expressions of the source are evaluated character by character.        *)
(***************************************************************************)
EXTENDS Integers, Sequences, FiniteSets, TLC

VARIABLES
    frags,          \* parse: the pieces the input file name is made of
    ext,            \* parse: the index of the trailing piece of the file name
    parsed,         \* parse: has parse_file_name returned
    info,           \* parse: the FileInfo that parse_file_name returned
    abbrevs,        \* abbreviations: namer_config.site_abbreviations, in order
    text,           \* abbreviations: the local variable text
    idx,            \* abbreviations: position of the for loop in the table
    tested,         \* abbreviations: the entries whose pattern was tested
    applied,        \* abbreviations: the entries whose substitution was made
    done,           \* abbreviations: has replace_abbreviations returned
    arg,            \* abbreviations: the text replace_abbreviations was given
    current_field,  \* formatter: PartialFormatter.current_field
    missing,        \* formatter: PartialFormatter.missing
    bad_fmt,        \* formatter: PartialFormatter.bad_fmt
    kwargs,         \* formatter: the render context, shared by the renders
    renders,        \* formatter: per render, the template and its progress
    log             \* formatter: per render, the format_field calls made

vars == <<frags, ext, parsed, info, abbrevs, text, idx, tested, applied, done, arg,
          current_field, missing, bad_fmt, kwargs, renders, log>>

parseVars == <<frags, ext, parsed, info>>
abbrVars == <<abbrevs, text, idx, tested, applied, done, arg>>
fmtVars == <<current_field, missing, bad_fmt, kwargs, renders, log>>

----------------------------------------------------------------------------
(* Characters and strings                                                   *)

LowerSeq == <<"a","b","c","d","e","f","g","h","i","j","k","l","m",
              "n","o","p","q","r","s","t","u","v","w","x","y","z">>
UpperSeq == <<"A","B","C","D","E","F","G","H","I","J","K","L","M",
              "N","O","P","Q","R","S","T","U","V","W","X","Y","Z">>
LowerSet == {LowerSeq[i] : i \in 1..26}
UpperSet == {UpperSeq[i] : i \in 1..26}
Letters == LowerSet \cup UpperSet
Digits == {"0","1","2","3","4","5","6","7","8","9"}
DigitSeq == <<"0","1","2","3","4","5","6","7","8","9">>
Alnum == Letters \cup Digits
WordChars == Alnum \cup {"_"}

upperChar == [c \in LowerSet |-> UpperSeq[CHOOSE i \in 1..26 : LowerSeq[i] = c]]
lowerChar == [c \in UpperSet |-> LowerSeq[CHOOSE i \in 1..26 : UpperSeq[i] = c]]
digitVal == [c \in Digits |-> (CHOOSE i \in 1..10 : DigitSeq[i] = c) - 1]

ToUpperChar(c) == IF c \in LowerSet THEN upperChar[c] ELSE c
ToLowerChar(c) == IF c \in UpperSet THEN lowerChar[c] ELSE c

\* str.upper and str.lower
StrUpper(s) == [i \in 1..Len(s) |-> ToUpperChar(s[i])]
StrLower(s) == [i \in 1..Len(s) |-> ToLowerChar(s[i])]

\* The character at position i, or "" when i is outside the text.
At(t, i) == IF i >= 1 /\ i <= Len(t) THEN t[i] ELSE ""

\* t[i..j] as Python's slice would give it (empty when j < i).
Slice(t, i, j) == IF j < i THEN << >> ELSE SubSeq(t, i, j)

\* Does lit occur in t at position i
OccursAt(t, lit, i) ==
    /\ i >= 1
    /\ i + Len(lit) - 1 <= Len(t)
    /\ \A k \in 1..Len(lit) : t[i + k - 1] = lit[k]

\* The same, letters compared without case (re.IGNORECASE)
OccursAtNoCase(t, lit, i) ==
    /\ i >= 1
    /\ i + Len(lit) - 1 <= Len(t)
    /\ \A k \in 1..Len(lit) : ToLowerChar(t[i + k - 1]) = ToLowerChar(lit[k])

\* The number of consecutive characters of class cls starting at i
RECURSIVE RunLen(_, _, _)
RunLen(t, cls, i) == IF At(t, i) \in cls THEN 1 + RunLen(t, cls, i + 1) ELSE 0

\* int() of a run of decimal digits
RECURSIVE IntOf(_)
IntOf(ds) == IF ds = << >> THEN 0
             ELSE 10 * IntOf(SubSeq(ds, 1, Len(ds) - 1)) + digitVal[ds[Len(ds)]]

\* The element of a set of one element.  Only({e(x) : x \in {v}}) is e with
\* the local variable x assigned v: v is computed once, as an assignment
\* of the code computes it.
Only(S) == CHOOSE x \in S : TRUE

Max(S) == Only({(CHOOSE x \in T : \A y \in T : y <= x) : T \in {S}})
Min(S) == Only({(CHOOSE x \in T : \A y \in T : x <= y) : T \in {S}})

\* What an unset Optional[str] field holds, and an unset Optional[int]
NoneS == <<"None">>
NoneI == -1

----------------------------------------------------------------------------
(* Patterns.  A compiled pattern of the configuration is a literal text.    *)

\* Pattern.match(text): the pattern matches at the start of the text
PatMatch(lit, t) == OccursAt(t, lit, 1)

\* The positions at which the pattern matches anywhere in the text
PatPositions(lit, t) == {i \in 1..(Len(t) + 1) : OccursAt(t, lit, i)}

\* Pattern.sub(full, text, 1): the leftmost match is replaced, once
PatSubOnce(lit, full, t) ==
    IF PatPositions(lit, t) = {} THEN t
    ELSE LET i == Min(PatPositions(lit, t))
         IN  Slice(t, 1, i - 1) \o full \o Slice(t, i + Len(lit), Len(t))

\* Pattern.sub('', text): every match, left to right, is removed
RECURSIVE PatRemoveAll(_, _, _)
PatRemoveAll(lit, t, i) ==
    IF i > Len(t) \/ lit = << >> THEN Slice(t, i, Len(t))
    ELSE IF OccursAt(t, lit, i) THEN PatRemoveAll(lit, t, i + Len(lit))
    ELSE <<t[i]>> \o PatRemoveAll(lit, t, i + 1)

----------------------------------------------------------------------------
(* replace_abbreviations, as a function of its arguments                    *)

RECURSIVE ReplaceFrom(_, _, _)
ReplaceFrom(t, table, i) ==
    IF i > Len(table) THEN t
    ELSE IF PatMatch(table[i].abbreviation, t)
         THEN PatSubOnce(table[i].abbreviation, table[i].full, t)
         ELSE ReplaceFrom(t, table, i + 1)

replace_abbreviations(t, table) == ReplaceFrom(t, table, 1)

----------------------------------------------------------------------------
(* name_cleaner                                                             *)

RECURSIVE CleanupAll(_, _, _)
CleanupAll(name, re_cleanup, i) ==
    IF i > Len(re_cleanup) THEN name
    ELSE CleanupAll(PatRemoveAll(re_cleanup[i], name, 1), re_cleanup, i + 1)

\* name.replace('.', ' ')
DotsToSpaces(s) == [i \in 1..Len(s) |-> IF s[i] = "." THEN " " ELSE s[i]]

\* ' '.join(name.split()): the words of the text, one space between them
RECURSIVE JoinSplit(_, _, _)
JoinSplit(s, i, started) ==
    IF i > Len(s) THEN << >>
    ELSE IF s[i] = " " THEN JoinSplit(s, i + 1, started)
    ELSE (IF started /\ At(s, i - 1) = " " THEN <<" ">> ELSE << >>)
         \o <<s[i]>> \o JoinSplit(s, i + 1, TRUE)

\* str.strip('-')
StripDashes(s) ==
    LET keep == {i \in 1..Len(s) : s[i] # "-"}
    IN  IF keep = {} THEN << >> ELSE Slice(s, Min(keep), Max(keep))

name_cleaner(name, re_cleanup) ==
    Only({StripDashes(joined) :
          joined \in {JoinSplit(spaced, 1, FALSE) :
                      spaced \in {DotsToSpaces(cleaned) :
                                  cleaned \in {CleanupAll(name, re_cleanup, 1)}}}})

----------------------------------------------------------------------------
(* PurePath(filename).suffix and .stem, for a file name without directories *)

PathName(filename) == IF filename = <<".">> THEN << >> ELSE filename

LastDot(name) ==
    LET dots == {i \in 1..Len(name) : name[i] = "."}
    IN  IF dots = {} THEN 0 ELSE Max(dots)

HasSuffix(name) == 1 < LastDot(name) /\ LastDot(name) < Len(name)

PathSuffix(filename) ==
    LET name == PathName(filename)
    IN  IF HasSuffix(name) THEN Slice(name, LastDot(name), Len(name)) ELSE << >>

PathStem(filename) ==
    LET name == PathName(filename)
    IN  IF HasSuffix(name) THEN Slice(name, 1, LastDot(name) - 1) ELSE name

----------------------------------------------------------------------------
(* The three tag and code patterns of parse_file_name                       *)

\* \[(?:the)?porndbid=(\d+)\] at position i, re.IGNORECASE: the digits, or
\* << >> when there is no match at i
TpdbAt(t, i) ==
    LET j == IF OccursAtNoCase(t, <<"t","h","e">>, i + 1) THEN i + 4 ELSE i + 1
        d == j + 9
        n == RunLen(t, Digits, d)
    IN  IF /\ At(t, i) = "["
           /\ OccursAtNoCase(t, <<"p","o","r","n","d","b","i","d","=">>, j)
           /\ n >= 1
           /\ At(t, d + n) = "]"
        THEN Slice(t, d, d + n - 1) ELSE << >>

\* tpdb_regex.search(stem): group(1) of the leftmost match, << >> if none
TpdbSearch(stem) ==
    LET hits == {i \in 1..Len(stem) : TpdbAt(stem, i) # << >>}
    IN  IF hits = {} THEN << >> ELSE TpdbAt(stem, Min(hits))

\* ([a-zA-Z]{2,5}-\d{3,5}) at position i: the last position matched, or 0
JavEnd(t, i) ==
    LET l == RunLen(t, Letters, i)
        d == RunLen(t, Digits, i + l + 1)
    IN  IF l >= 2 /\ l <= 5 /\ At(t, i + l) = "-" /\ d >= 3
        THEN i + l + (IF d > 5 THEN 5 ELSE d) ELSE 0

\* jav_regex.findall(stem): the matches in order, none overlapping
RECURSIVE JavFindAll(_, _)
JavFindAll(t, i) ==
    IF i > Len(t) THEN << >>
    ELSE Only({IF e > 0 THEN <<Slice(t, i, e)>> \o JavFindAll(t, e + 1)
               ELSE JavFindAll(t, i + 1) :
               e \in {JavEnd(t, i)}})

\* \b((?:did|milf)\-?\d{2,4})\b at position i, re.IGNORECASE: the last
\* position matched, or 0
SceneEnd(t, i) ==
    LET p == IF OccursAtNoCase(t, <<"d","i","d">>, i) THEN 3
             ELSE IF OccursAtNoCase(t, <<"m","i","l","f">>, i) THEN 4 ELSE 0
        j == IF At(t, i + p) = "-" THEN i + p + 1 ELSE i + p
        d == RunLen(t, Digits, j)
    IN  IF /\ p > 0
           /\ At(t, i - 1) \notin WordChars
           /\ d >= 2 /\ d <= 4
           /\ At(t, j + d) \notin WordChars
        THEN j + d - 1 ELSE 0

\* did_milf_regex.search(stem): group(1) of the leftmost match, << >> if none
SceneSearch(stem) ==
    LET hits == {i \in 1..Len(stem) : SceneEnd(stem, i) > 0}
    IN  IF hits = {} THEN << >>
        ELSE Slice(stem, Min(hits), SceneEnd(stem, Min(hits)))

----------------------------------------------------------------------------
(* parser_config_to_regex(DEFAULT_REGEX_TOKENS), and regex.search           *)
(*   {_site}{_sep}{_optional_date}{_ts}{_name}{_dot}{_ext}                  *)
(* The search is the backtracking search of re: of the ways the pattern can *)
(* match, the one that the order of the attempts reaches first.             *)

SepChars == {".", "-", " "}

\* _ext: \.(?P<ext>[a-zA-Z0-9]{3,4})$  The position of the dot, or 0
ExtDot(t) ==
    LET ok == {p \in {Len(t) - 4, Len(t) - 3} :
                  /\ p >= 1
                  /\ t[p] = "."
                  /\ \A i \in (p + 1)..Len(t) : t[i] \in Alnum}
    IN  IF ok = {} THEN 0 ELSE Min(ok)

\* The lookahead of _name: [0-9]{2,4}[\.\- ][0-9]{2}[\.\- ][0-9]{2} at j
DateLook(t, j) ==
    \E n \in 2..4 :
        /\ \A k \in 0..(n - 1) : At(t, j + k) \in Digits
        /\ At(t, j + n) \in SepChars
        /\ At(t, j + n + 1) \in Digits /\ At(t, j + n + 2) \in Digits
        /\ At(t, j + n + 3) \in SepChars
        /\ At(t, j + n + 4) \in Digits /\ At(t, j + n + 5) \in Digits

\* _name then _dot then _ext: the name runs from b up to the dot at p, and no
\* character of it is followed by a date
NameOK(t, b, p) ==
    /\ b <= p
    /\ \A i \in b..(p - 1) : ~DateLook(t, i + 1)

\* The positions at which a separator run that starts at i may end
From(t, i) == (i + 1)..(i + RunLen(t, SepChars, i))

\* The longest of the separator runs at position i whose end is one of the
\* positions starts, or 0 (a greedy [\.\- ]+ and what follows it)
SepThen(t, i, starts) == Max({i} \cup (starts \cap From(t, i))) - i

\* _ts then the name: ((?P<trans>[T|t][S|s])[\.\- ]+){0,1}
\* [has: the group took part, at: where the name begins], or no match.
TransOK(t, a, p) ==
    /\ At(t, a) \in {"T", "|", "t"}
    /\ At(t, a + 1) \in {"S", "|", "s"}
    /\ SepThen(t, a + 2, {b \in From(t, a + 2) : NameOK(t, b, p)}) > 0

TailOK(t, a, p) == TransOK(t, a, p) \/ NameOK(t, a, p)

TailMatch(t, a, p) ==
    IF TransOK(t, a, p)
    THEN [trans |-> Slice(t, a, a + 1),
          name |-> Slice(t, a + 2 + SepThen(t, a + 2, {b \in From(t, a + 2) : NameOK(t, b, p)}), p - 1)]
    ELSE [trans |-> NoneS, name |-> Slice(t, a, p - 1)]

\* _optional_date with a year of y digits at a: where the separator run
\* after the day ends, or 0.  The runs between the numbers are followed by
\* a digit, so they are taken whole.
DateEnd(t, a, p, y) ==
    LET m == a + y + RunLen(t, SepChars, a + y)
        d == m + 2 + RunLen(t, SepChars, m + 2)
        k == SepThen(t, d + 2, {b \in From(t, d + 2) : TailOK(t, b, p)})
    IN  IF /\ \A i \in a..(a + y - 1) : At(t, i) \in Digits
           /\ m > a + y
           /\ At(t, m) \in Digits /\ At(t, m + 1) \in Digits
           /\ d > m + 2
           /\ At(t, d) \in Digits /\ At(t, d + 1) \in Digits
           /\ k > 0
        THEN d + 2 + k ELSE 0

\* The year length the search settles on: four digits are tried first
YearLen(t, a, p) ==
    IF DateEnd(t, a, p, 4) > 0 THEN 4 ELSE IF DateEnd(t, a, p, 2) > 0 THEN 2 ELSE 0

AfterSiteOK(t, a, p) == YearLen(t, a, p) > 0 \/ TailOK(t, a, p)

\* The groups after the site when the date took part, its year of y digits
DatedMatch(t, a, p, y) ==
    LET m == a + y + RunLen(t, SepChars, a + y)
        d == m + 2 + RunLen(t, SepChars, m + 2)
    IN  Only({[year |-> Slice(t, a, a + y - 1), month |-> Slice(t, m, m + 1),
               day |-> Slice(t, d, d + 1), trans |-> tail.trans, name |-> tail.name] :
              tail \in {TailMatch(t, b, p) : b \in {DateEnd(t, a, p, y)}}})

\* The groups after the site when the date took no part
UndatedMatch(t, a, p) ==
    Only({[year |-> NoneS, month |-> NoneS, day |-> NoneS,
           trans |-> tail.trans, name |-> tail.name] :
          tail \in {TailMatch(t, a, p)}})

AfterSiteMatch(t, a, p) ==
    Only({IF y > 0 THEN DatedMatch(t, a, p, y) ELSE UndatedMatch(t, a, p) :
          y \in {YearLen(t, a, p)}})

\* The lengths of site, (?P<site>.*?), after which the rest matches
SiteEnds(t, p) ==
    {e \in 0..Len(t) : SepThen(t, e + 1, {a \in From(t, e + 1) : AfterSiteOK(t, a, p)}) > 0}

\* regex.search(text): the groups of the match, matched FALSE when none.
\* A match that starts later in the text also starts at its first character
\* with a longer site, so the search always ends at the first character.
\* The groups of the match whose site has e characters, the extension
\* starting after the dot at p
MatchAt(t, e, p) ==
    Only({[matched |-> TRUE, site |-> Slice(t, 1, e), year |-> g.year,
           month |-> g.month, day |-> g.day, trans |-> g.trans,
           name |-> g.name, ext |-> Slice(t, p + 1, Len(t))] :
          g \in {AfterSiteMatch(t, e + 1 + k, p) :
                 k \in {SepThen(t, e + 1,
                                {a \in From(t, e + 1) : AfterSiteOK(t, a, p)})}}})

\* The search once the dot of the extension is known to be at p (0: none)
SearchWithExt(t, p) ==
    Only({IF p = 0 \/ ends = {} THEN [matched |-> FALSE]
          ELSE Only({MatchAt(t, e, p) : e \in {Min(ends)}}) :
          ends \in {SiteEnds(t, p)}})

RegexSearch(t) == Only({SearchWithExt(t, p) : p \in {ExtDot(t)}})

----------------------------------------------------------------------------
(* parse_file_name                                                          *)

\* FileInfo(): every field at its default
FileInfo ==
    [site |-> NoneS, date |-> NoneS, trans |-> FALSE, name |-> NoneS,
     extension |-> NoneS, source_file_name |-> NoneS, hashes |-> NoneS,
     jav_code |-> NoneS, code_type |-> "None", tpdb_id |-> NoneI]

forbidden_prefixes == {<<"W","E","B","D","L">>}
forbidden_resolutions ==
    {<<"2","1","6","0">>, <<"1","0","8","0">>, <<"7","2","0">>,
     <<"4","8","0">>, <<"3","6","0">>}

\* namer_config.site_abbreviations and namer_config.re_cleanup of the parses
ParseAbbreviations ==
    << [abbreviation |-> <<"S","i","t","e",".">>, full |-> <<"F","u","l","l",".">>] >>
ParseCleanup == << <<"W","E","B","D","L">> >>

\* code.split('-')[-1]
NumPart(code) ==
    LET dashes == {i \in 1..Len(code) : code[i] = "-"}
    IN  IF dashes = {} THEN code ELSE Slice(code, Max(dashes) + 1, Len(code))

\* The test of the loop over potential_codes
CodeAccepted(code) ==
    /\ ~ \E prefix \in forbidden_prefixes : OccursAt(StrUpper(code), prefix, 1)
    /\ NumPart(code) \notin forbidden_resolutions

\* The loop without its break: the last accepted code is kept
RECURSIVE LastAccepted(_, _)
LastAccepted(codes, i) ==
    IF i > Len(codes) THEN << >>
    ELSE IF LastAccepted(codes, i + 1) # << >> THEN LastAccepted(codes, i + 1)
    ELSE IF CodeAccepted(codes[i]) THEN StrUpper(codes[i])
    ELSE << >>

\* The loop over potential_codes: found_code, << >> when it stays None
RECURSIVE FirstAccepted(_, _)
FirstAccepted(codes, i) ==
    IF i > Len(codes) THEN << >>
    ELSE IF CodeAccepted(codes[i]) THEN StrUpper(codes[i])
    ELSE FirstAccepted(codes, i + 1)

\* The scene id taken as it is written, not lowercased
SceneCodeAsWritten(stem) == SceneSearch(stem)

\* The scene id taken when no catalog code was found
SceneCode(stem) == StrLower(SceneSearch(stem))

\* found_code and code_type after both code stages
CodeStage(stem) ==
    Only({IF found_code # << >> THEN [jav_code |-> found_code, code_type |-> "JAV"]
          ELSE IF SceneCode(stem) # << >>
               THEN [jav_code |-> SceneCode(stem), code_type |-> "SCENE_MOVIE_ID"]
               ELSE [jav_code |-> NoneS, code_type |-> "None"] :
          found_code \in {FirstAccepted(potential_codes, 1) :
                          potential_codes \in {JavFindAll(stem, 1)}}})

\* The date field of a match with a year
DateOf(m) ==
    (IF Len(m.year) = 2 THEN <<"2","0">> ELSE << >>)
    \o m.year \o <<"-">> \o m.month \o <<"-">> \o m.day

\* The final stage: the fields taken from the match of the token regex
GenericStage(parts, filename) ==
    Only({IF ~m.matched THEN parts
          ELSE [parts EXCEPT
                  !.date = IF m.year # NoneS THEN DateOf(m) ELSE @,
                  !.name = IF m.name # << >>
                           THEN name_cleaner(m.name, ParseCleanup) ELSE @,
                  !.site = IF m.site # << >> THEN m.site ELSE @,
                  !.trans = IF m.trans # NoneS
                            THEN StrUpper(m.trans) = <<"T","S">> ELSE @] :
          m \in {RegexSearch(new_pattern) :
                 new_pattern \in {replace_abbreviations(filename,
                                                        ParseAbbreviations)}}})

\* The extension taken from the path
ExtensionOf(filename) ==
    IF PathSuffix(filename) # << >>
    THEN Slice(PathSuffix(filename), 2, Len(PathSuffix(filename))) ELSE << >>

\* The stages after the id tag was looked for and not found
CodeAndGenericStages(parts, filename) ==
    Only({GenericStage(coded, filename) :
          coded \in {[parts EXCEPT !.jav_code = c.jav_code,
                                   !.code_type = c.code_type] :
                     c \in {CodeStage(s) : s \in {PathStem(filename)}}}})

\* The id tag stage without its return: the later stages run all the same
AfterExtensionNoReturn(parts, filename) ==
    Only({IF tpdb_match # << >>
          THEN CodeAndGenericStages([parts EXCEPT !.tpdb_id = IntOf(tpdb_match)],
                                    filename)
          ELSE CodeAndGenericStages(parts, filename) :
          tpdb_match \in {TpdbSearch(s) : s \in {PathStem(filename)}}})

\* The id tag stage and what follows it
AfterExtension(parts, filename) ==
    Only({IF tpdb_match # << >>
          THEN [parts EXCEPT !.tpdb_id = IntOf(tpdb_match)]
          ELSE CodeAndGenericStages(parts, filename) :
          tpdb_match \in {TpdbSearch(s) : s \in {PathStem(filename)}}})

parse_file_name(filename) ==
    Only({AfterExtension(file_name_parts, filename) :
          file_name_parts \in {[FileInfo EXCEPT
                                  !.source_file_name = filename,
                                  !.extension = ExtensionOf(filename)]}})

----------------------------------------------------------------------------
(* The file names parsed: up to MaxFrags pieces, then a trailing piece      *)

MaxFrags == 3

Pieces ==
    << <<"[","p","o","r","n","d","b","i","d","=","1","2","]">>,
       <<"[","T","h","e","P","o","r","n","D","B","I","D","=","7","]">>,
       <<"A","B","C","-","1","2","3">>,
       <<"W","E","B","D","L","-","7","2","0">>,
       <<"m","i","l","f","-","7","2","0">>,
       <<"W","E","B","D","L","-","4","5","6","7">>,
       <<"D","I","D","-","4","5","2","1">>,
       <<"D","i","D","4","5">>,
       <<"S","i","t","e",".">>,
       <<"2","3",".","0","1",".","0","2",".">>,
       <<"T","S",".">>,
       <<"N","a","m","e">> >>

Endings ==
    << << >>, <<".","m","p","4">>, <<".","M","P","4">>, <<".","M","k","v","x","2">> >>

RECURSIVE Concat(_)
Concat(fs) == IF fs = << >> THEN << >> ELSE Pieces[Head(fs)] \o Concat(Tail(fs))

FileNameOf(fs, e) == Concat(fs) \o Endings[e]

FragSeqs == UNION {[1..n -> 1..Len(Pieces)] : n \in 0..MaxFrags}

filename == FileNameOf(frags, ext)

IdleParse == frags = << >> /\ ext = 1 /\ parsed = TRUE /\ info = FileInfo
IdleAbbr == /\ abbrevs = << >> /\ text = << >> /\ idx = 1
            /\ tested = {} /\ applied = {} /\ done = TRUE /\ arg = << >>
IdleFmt == /\ current_field = "None" /\ missing = << >> /\ bad_fmt = << >>
           /\ kwargs = << >> /\ renders = << >> /\ log = << >>

InitParse ==
    /\ frags \in FragSeqs
    /\ ext \in 1..Len(Endings)
    /\ parsed = FALSE
    /\ info = FileInfo
    /\ IdleAbbr /\ IdleFmt

Parse ==
    /\ ~parsed
    /\ \E name \in {filename} : info' = parse_file_name(name)
    /\ parsed' = TRUE
    /\ UNCHANGED <<frags, ext, abbrVars, fmtVars>>

NextParse == Parse

SpecParse == InitParse /\ [][NextParse]_vars

----------------------------------------------------------------------------
(* replace_abbreviations, one iteration of its loop at a time               *)

MaxAbbrevs == 2
MaxText == 3

AbbrChars == {"a", "b"}
AbbrTexts == UNION {[1..n -> AbbrChars] : n \in 0..MaxText}
AbbrEntries ==
    [abbreviation : {<<"a">>, <<"a","b">>, <<"b">>},
     full : {<<"b">>, <<"a","b">>, << >>}]
AbbrTables == UNION {[1..n -> AbbrEntries] : n \in 0..MaxAbbrevs}

InitAbbr ==
    /\ abbrevs \in AbbrTables
    /\ arg \in AbbrTexts
    /\ text = arg
    /\ idx = 1
    /\ tested = {}
    /\ applied = {}
    /\ done = FALSE
    /\ IdleParse /\ IdleFmt

\* The substitution without the break: the loop goes on to the next entry
AbbrApplyNoBreak ==
    /\ ~done /\ idx <= Len(abbrevs)
    /\ PatMatch(abbrevs[idx].abbreviation, text)
    /\ tested' = tested \cup {idx}
    /\ text' = PatSubOnce(abbrevs[idx].abbreviation, abbrevs[idx].full, text)
    /\ applied' = applied \cup {idx}
    /\ idx' = idx + 1
    /\ UNCHANGED <<abbrevs, done, arg, parseVars, fmtVars>>

\* The entry at idx matches: substitute once, break, return
AbbrApply ==
    /\ ~done /\ idx <= Len(abbrevs)
    /\ PatMatch(abbrevs[idx].abbreviation, text)
    /\ tested' = tested \cup {idx}
    /\ text' = PatSubOnce(abbrevs[idx].abbreviation, abbrevs[idx].full, text)
    /\ applied' = applied \cup {idx}
    /\ done' = TRUE
    /\ UNCHANGED <<abbrevs, idx, arg, parseVars, fmtVars>>

\* The entry at idx does not match: on to the next entry
AbbrSkip ==
    /\ ~done /\ idx <= Len(abbrevs)
    /\ ~PatMatch(abbrevs[idx].abbreviation, text)
    /\ tested' = tested \cup {idx}
    /\ idx' = idx + 1
    /\ UNCHANGED <<abbrevs, text, applied, done, arg, parseVars, fmtVars>>

\* The table is exhausted: return text
AbbrReturn ==
    /\ ~done /\ idx > Len(abbrevs)
    /\ done' = TRUE
    /\ UNCHANGED <<abbrevs, text, idx, tested, applied, arg, parseVars, fmtVars>>

NextAbbr == AbbrApply \/ AbbrSkip \/ AbbrReturn

SpecAbbr == InitAbbr /\ [][NextAbbr]_vars

----------------------------------------------------------------------------
(* PartialFormatter: values                                                 *)
(* A value is its type and its str(); a list is known by its str() alone.   *)

StrVal(s) == [t |-> "str", v |-> s]
NoneVal == [t |-> "none", v |-> <<"N","o","n","e">>]
ListVal(s) == [t |-> "list", v |-> s]
BoolVal(b) == [t |-> "bool", v |-> IF b THEN <<"T","r","u","e">>
                                        ELSE <<"F","a","l","s","e">>]

\* bool(value), the test of "if not value"
Truthy(value) ==
    CASE value.t = "none" -> FALSE
      [] value.t = "str" -> value.v # << >>
      [] value.t = "list" -> value.v # <<"[","]">>
      [] value.t = "bool" -> value.v = <<"T","r","u","e">>

Rep(c, n) == [i \in 1..n |-> c]

supported_keys ==
    {"date", "description", "name", "site", "full_site", "parent", "full_parent",
     "network", "full_network", "performers", "all_performers", "performer-sites",
     "all_performer-sites", "act", "ext", "trans", "source_file_name",
     "source_file_stem", "uuid", "_id", "vr", "type", "year", "resolution",
     "video_codec", "audio_codec", "external_id", "fps"}

MAX_NAME_LENGTH == 180

----------------------------------------------------------------------------
(* format_field: the processing of the 'name' field                         *)

Whitespace == {" "}

\* [^a-zA-Z0-9\s\-\(\)\[\]_.,] is removed
NameCharAllowed(c) ==
    c \in Alnum \cup Whitespace \cup {"-", "(", ")", "[", "]", "_", ".", ","}

KeepAllowed(s) == SelectSeq(s, NameCharAllowed)

\* re.sub(r'[\s.-]+', ' ', s): every run becomes one space (the first
\* character of a run is replaced by the space, the others are dropped)
RunChars == Whitespace \cup {".", "-"}
NotDropped(c) == c # ""
CollapseRuns(s) ==
    SelectSeq([i \in 1..Len(s) |->
                   IF s[i] \notin RunChars THEN s[i]
                   ELSE IF At(s, i - 1) \in RunChars THEN "" ELSE " "],
              NotDropped)

\* The number of consecutive characters of class cls ending at i
RECURSIVE RunLenBack(_, _, _)
RunLenBack(t, cls, i) ==
    IF At(t, i) \in cls THEN 1 + RunLenBack(t, cls, i - 1) ELSE 0

\* str.strip()
Strip(s) ==
    IF RunLen(s, Whitespace, 1) = Len(s) THEN << >>
    ELSE Slice(s, 1 + RunLen(s, Whitespace, 1),
               Len(s) - RunLenBack(s, Whitespace, Len(s)))

Truncate(s) ==
    IF Len(s) > MAX_NAME_LENGTH THEN Strip(Slice(s, 1, MAX_NAME_LENGTH)) ELSE s

sanitized_name(s) == Truncate(Strip(CollapseRuns(KeepAllowed(s))))

\* The value after the block that processes the 'name' field
NameStage(value, cur) ==
    IF value.t = "str" /\ cur = "name" THEN StrVal(sanitized_name(value.v)) ELSE value

----------------------------------------------------------------------------
(* format_field: the format spec                                            *)

\* re.compile(r'.\d+<letter>').match(format_spec)
DecorMatch(spec, letter) ==
    /\ Len(spec) >= 1
    /\ RunLen(spec, Digits, 2) >= 1
    /\ At(spec, 2 + RunLen(spec, Digits, 2)) = letter

\* int(format_spec[1:-1]) succeeds
CountValid(spec) ==
    /\ Len(spec) >= 3
    /\ \A i \in 2..(Len(spec) - 1) : spec[i] \in Digits

DecorCount(spec) == IntOf(Slice(spec, 2, Len(spec) - 1))

Ok(s) == [status |-> "ok", out |-> s]
Raise(e) == [status |-> e, out |-> << >>]

Pad(s, w, right) ==
    IF Len(s) >= w THEN s
    ELSE IF right THEN Rep(" ", w - Len(s)) \o s ELSE s \o Rep(" ", w - Len(s))

IsWidth(ds) == ds # << >> /\ ds[1] # "0" /\ \A i \in 1..Len(ds) : ds[i] \in Digits

\* format(value, format_spec) of string.Formatter.format_field, for the specs
\* of the templates below: empty, a width, an alignment and a width, and
\* any text that is no format spec at all
BuiltinFormat(value, spec) ==
    IF spec = << >> THEN Ok(value.v)
    ELSE IF value.t \in {"list", "none"} THEN Raise("TypeError")
    ELSE LET body == IF value.t = "bool"
                     THEN (IF Truthy(value) THEN <<"1">> ELSE <<"0">>) ELSE value.v
         IN  IF IsWidth(spec) THEN Ok(Pad(body, IntOf(spec), value.t = "bool"))
             ELSE IF spec[1] \in {"<", ">"} /\ IsWidth(Tail(spec))
                  THEN Ok(Pad(body, IntOf(Tail(spec)), spec[1] = ">"))
             ELSE IF spec = <<"d">> /\ value.t = "bool" THEN Ok(body)
             ELSE Raise("ValueError")

\* Template('{{ val<format_spec> }}').render(val=value), for the filters of
\* the templates below: lower and upper; any other name is no filter
JinjaRender(value, spec) ==
    IF spec = <<"|","l","o","w","e","r">> THEN Ok(StrLower(value.v))
    ELSE IF spec = <<"|","u","p","p","e","r">> THEN Ok(StrUpper(value.v))
    ELSE Raise("TemplateAssertionError")

\* value + text and text + value: only str and str concatenate
Concatenated(value, before, after) ==
    IF value.t = "str" THEN BuiltinFormat(StrVal(before \o value.v \o after), << >>)
    ELSE Raise("TypeError")

\* The body of the try statement
TryBody(value, spec) ==
    IF DecorMatch(spec, "s")
    THEN IF ~CountValid(spec) THEN Raise("ValueError")
         ELSE Concatenated(value, << >>, Rep(spec[1], DecorCount(spec)))
    ELSE IF DecorMatch(spec, "p")
    THEN IF ~CountValid(spec) THEN Raise("ValueError")
         ELSE Concatenated(value, Rep(spec[1], DecorCount(spec)), << >>)
    ELSE IF DecorMatch(spec, "i")
    THEN IF ~CountValid(spec) THEN Raise("ValueError")
         ELSE Concatenated(value, Rep(spec[1], DecorCount(spec)),
                           Rep(spec[1], DecorCount(spec)))
    ELSE IF At(spec, 1) = "|"
    THEN IF JinjaRender(value, spec).status = "ok"
         THEN BuiltinFormat(StrVal(JinjaRender(value, spec).out), << >>)
         ELSE JinjaRender(value, spec)
    ELSE BuiltinFormat(value, spec)

\* The try statement with its except clause
TryExcept(value, spec, bad) ==
    LET r == TryBody(value, spec)
    IN  IF r.status = "ValueError" /\ bad # << >> THEN Ok(bad) ELSE r

\* format_field with "if value is None" in place of "if not value"
FormatFieldNoneOnly(value, spec, cur, miss, bad) ==
    IF value.t = "none"
    THEN [status |-> "ok", out |-> miss, reached |-> value, tried |-> "none"]
    ELSE LET v == NameStage(value, cur)
             t == TryBody(v, spec)
             r == TryExcept(v, spec, bad)
         IN  [status |-> r.status, out |-> r.out, reached |-> v, tried |-> t.status]

\* A call of format_field(value, format_spec) that finds current_field = cur:
\* what it returns or raises (status, out), the value it hands to the try
\* statement (reached), and what the try body itself did (tried)
format_field(value, spec, cur, miss, bad) ==
    IF ~Truthy(value)
    THEN [status |-> "ok", out |-> miss, reached |-> value, tried |-> "none"]
    ELSE LET v == NameStage(value, cur)
             t == TryBody(v, spec)
             r == TryExcept(v, spec, bad)
         IN  [status |-> r.status, out |-> r.out, reached |-> v, tried |-> t.status]

\* get_field(field_name, args, kwargs) but for the store to current_field
get_field(field_name, kw) ==
    IF field_name \in DOMAIN kw THEN [status |-> "ok", val |-> kw[field_name]]
    ELSE IF field_name \notin supported_keys
         THEN [status |-> "KeyError", val |-> NoneVal]
         ELSE [status |-> "ok", val |-> NoneVal]

----------------------------------------------------------------------------
(* Renders: PartialFormatter.format(template, **kwargs).  string.Formatter  *)
(* walks the replacement fields of the template; for each it calls          *)
(* get_field, renders the format spec when the spec holds a replacement     *)
(* field of its own (get_field and format_field again), and then calls      *)
(* format_field.  A render is at one of these calls (pc).                   *)

MaxFields == 1
NumRenders == 2

LongTitle == Rep("a", MAX_NAME_LENGTH - 1) \o <<" ","b","c","d">>

Contexts ==
    { ("name" :> StrVal(<<"F","o","/","B",":","z">>) @@
       "site" :> StrVal(<<"A","/","B">>) @@
       "performers" :> ListVal(<<"[","'","a","'","]">>) @@
       "trans" :> BoolVal(TRUE) @@
       "w" :> StrVal(<<">","8">>) @@
       "bogus" :> StrVal(<<"q">>)),
      ("name" :> StrVal(LongTitle) @@
       "site" :> StrVal(<< >>) @@
       "performers" :> ListVal(<<"[","]">>) @@
       "trans" :> BoolVal(FALSE)),
      ("name" :> StrVal(<<" ","a",".",".","b","-","-","C"," ">>) @@
       "performers" :> ListVal(<<"[","'","a","'","]">>)) }

FieldNames == {"name", "site", "performers", "trans", "bogus"}
SpecTexts ==
    { << >>, <<"x","2","s">>, <<"x","2","p">>, <<"x","2","i">>, <<"x","2","s","Z">>,
      <<"|","l","o","w","e","r">>, <<"|","u","p","p","e","r">>, <<"d">>, <<"8">> }
SpecRefs == {"w", "name", "site", "bogus"}

\* A replacement field {name:spec}, or {name:{ref}} when ref is not ""
PlainFields == [name : FieldNames, spec : SpecTexts, ref : {""}]
NestedFields == [name : FieldNames, spec : {<< >>}, ref : SpecRefs]
Templates(fields, n) == UNION {[1..k -> fields] : k \in 1..n}

Markers == {<<"~","~">>, << >>}
BadMarkers == {<<"!","!">>, << >>}

NewRender(tpl) ==
    [tpl |-> tpl, pos |-> 1, pc |-> "get", obj |-> NoneVal, spec |-> << >>,
     out |-> << >>, err |-> "none"]

\* PartialFormatter(missing, bad_fmt), then one render
InitFmt ==
    /\ current_field = "None"
    /\ missing \in Markers
    /\ bad_fmt \in BadMarkers
    /\ kwargs \in Contexts
    /\ \E tpl \in Templates(PlainFields \cup NestedFields, MaxFields) :
           renders = <<NewRender(tpl)>>
    /\ log = << << >> >>
    /\ IdleParse /\ IdleAbbr

Field(r) == renders[r].tpl[renders[r].pos]

Raised(r, e) == renders' = [renders EXCEPT ![r].pc = "raised", ![r].err = e]

\* get_field for the field of the template
GetField(r) ==
    /\ renders[r].pc = "get"
    /\ current_field' = Field(r).name
    /\ LET g == get_field(Field(r).name, kwargs)
       IN  IF g.status # "ok" THEN Raised(r, g.status)
           ELSE renders' = [renders EXCEPT
                    ![r].obj = g.val,
                    ![r].spec = Field(r).spec,
                    ![r].pc = IF Field(r).ref = "" THEN "fmt" ELSE "spec"]
    /\ UNCHANGED <<missing, bad_fmt, kwargs, log, parseVars, abbrVars>>

\* The format spec is itself a replacement field: get_field and then
\* format_field for it, and the text it renders to is the format spec
SpecField(r) ==
    /\ renders[r].pc = "spec"
    /\ current_field' = Field(r).ref
    /\ LET g == get_field(Field(r).ref, kwargs)
           f == format_field(g.val, << >>, Field(r).ref, missing, bad_fmt)
       IN  IF g.status # "ok" THEN Raised(r, g.status) /\ UNCHANGED log
           ELSE /\ log' = [log EXCEPT ![r] = Append(@,
                       [field |-> Field(r).ref, nested |-> TRUE, value |-> g.val,
                        spec |-> << >>, cur |-> Field(r).ref, res |-> f])]
                /\ IF f.status # "ok" THEN Raised(r, f.status)
                   ELSE renders' = [renders EXCEPT ![r].spec = f.out, ![r].pc = "fmt"]
    /\ UNCHANGED <<missing, bad_fmt, kwargs, parseVars, abbrVars>>

\* format_field for the field of the template, and on to the next field
FormatField(r) ==
    /\ renders[r].pc = "fmt"
    /\ LET f == format_field(renders[r].obj, renders[r].spec, current_field,
                             missing, bad_fmt)
       IN  /\ log' = [log EXCEPT ![r] = Append(@,
                  [field |-> Field(r).name, nested |-> FALSE,
                   value |-> renders[r].obj, spec |-> renders[r].spec,
                   cur |-> current_field, res |-> f])]
           /\ IF f.status # "ok" THEN Raised(r, f.status)
              ELSE renders' = [renders EXCEPT
                       ![r].out = @ \o f.out,
                       ![r].pos = IF @ < Len(renders[r].tpl) THEN @ + 1 ELSE @,
                       ![r].pc = IF renders[r].pos < Len(renders[r].tpl)
                                 THEN "get" ELSE "done"]
    /\ UNCHANGED <<current_field, missing, bad_fmt, kwargs, parseVars, abbrVars>>

NextFmt == \E r \in DOMAIN renders : GetField(r) \/ SpecField(r) \/ FormatField(r)

SpecFmt == InitFmt /\ [][NextFmt]_vars

\* Renders that share one PartialFormatter, each of one plain field; their
\* calls of get_field and format_field interleave
ConcNames == {"name", "site", "performers"}
ConcFields == [name : ConcNames, spec : {<< >>, <<"x","2","s">>}, ref : {""}]

InitConc ==
    /\ current_field = "None"
    /\ missing = <<"~","~">>
    /\ bad_fmt = <<"!","!">>
    /\ kwargs \in Contexts
    /\ \E tpls \in [1..NumRenders -> Templates(ConcFields, 1)] :
           renders = [r \in 1..NumRenders |-> NewRender(tpls[r])]
    /\ log = [r \in 1..NumRenders |-> << >>]
    /\ IdleParse /\ IdleAbbr

NextConc == \E r \in DOMAIN renders : GetField(r) \/ FormatField(r)

SpecConc == InitConc /\ [][NextConc]_vars

----------------------------------------------------------------------------
(* Properties of parse_file_name (SpecParse)                                *)

stem == PathStem(filename)

\* The pieces that are id tags, and the id each one names
TagPieces == {1, 2}
TagId(piece) == IF piece = 1 THEN 12 ELSE 7

\* The id tags that lie in the stem of the file name, by their place in frags
TagsInStem ==
    {i \in DOMAIN frags : /\ frags[i] \in TagPieces
                          /\ Len(Concat(SubSeq(frags, 1, i))) <= Len(stem)}

\* The path's trailing suffix, lowercased, without its dot
LoweredSuffix ==
    StrLower(Slice(PathSuffix(filename), 2, Len(PathSuffix(filename))))

\* C1 as stated: a file name with an id tag in its stem gives a record with
\* tpdb_id the number of the tag and, but for tpdb_id and extension, every
\* field at its default.
C1_TagOnlyIdAndExtension ==
    (parsed /\ TagsInStem # {}) =>
        info = [FileInfo EXCEPT !.tpdb_id = TagId(frags[Min(TagsInStem)]),
                                !.extension = info.extension]

\* C1 as amended: a file name with an id tag in its stem gives a record with
\* tpdb_id the number of the (first) tag, source_file_name the file name as
\* given, and, but for these two and extension, every field at its default:
\* no code stage and no token parse has written to it.
C1_TagShortCircuits ==
    (parsed /\ TagsInStem # {}) =>
        info = [FileInfo EXCEPT !.tpdb_id = TagId(frags[Min(TagsInStem)]),
                                !.source_file_name = filename,
                                !.extension = info.extension]

\* A parsed file name with an id tag whose stem also holds an acceptable
\* catalog code and which the token regex matches
C1_Witness ==
    /\ parsed /\ TagsInStem # {}
    /\ CodeStage(stem).code_type = "JAV"
    /\ RegexSearch(replace_abbreviations(filename, ParseAbbreviations)).matched

\* C2 as stated: the extension of the record is the path's trailing suffix
\* in lower case, without the dot.
C2_ExtensionLowercased == parsed => info.extension = LoweredSuffix

\* A stem that is one scene id: did or milf in any case, a dash or none,
\* two to four digits
IsSceneToken(s) ==
    \E pre \in {<<"d","i","d">>, <<"m","i","l","f">>} : \E dash \in {0, 1} :
        /\ Len(s) - Len(pre) - dash \in 2..4
        /\ SubSeq(StrLower(s), 1, Len(pre)) = pre
        /\ dash = 1 => s[Len(pre) + 1] = "-"
        /\ \A i \in (Len(pre) + dash + 1)..Len(s) : s[i] \in Digits

\* The digits of a scene id
SceneDigits(s) == Slice(s, Len(s) - RunLenBack(s, Digits, Len(s)) + 1, Len(s))

\* A scene id that is a catalog code as well: dash-joined, three or four
\* digits, and these no video resolution
SceneTokenIsCatalogCode(s) ==
    /\ \E i \in 1..Len(s) : s[i] = "-"
    /\ Len(SceneDigits(s)) >= 3
    /\ SceneDigits(s) \notin forbidden_resolutions

\* C3 as stated: a file name whose stem is a scene id gives the id in lower
\* case as the code, of type SCENE_MOVIE_ID.
C3_SceneTokenIsSceneId ==
    (parsed /\ IsSceneToken(stem)) =>
        info.jav_code = StrLower(stem) /\ info.code_type = "SCENE_MOVIE_ID"

\* C3 as amended: a file name whose stem is a scene id gives the id in lower
\* case as the code, of type SCENE_MOVIE_ID, unless the id is dash-joined
\* with three or four digits that are no video resolution; such an id is a
\* catalog code, and the code is the id in upper case, of type JAV.
C3_SceneTokenUnlessCatalogCode ==
    (parsed /\ IsSceneToken(stem)) =>
        IF SceneTokenIsCatalogCode(stem)
        THEN info.jav_code = StrUpper(stem) /\ info.code_type = "JAV"
        ELSE info.jav_code = StrLower(stem) /\ info.code_type = "SCENE_MOVIE_ID"

\* A parsed file name whose stem is a scene id written with capitals that
\* is no catalog code
C3_Witness ==
    /\ parsed /\ IsSceneToken(stem) /\ ~SceneTokenIsCatalogCode(stem)
    /\ StrLower(stem) # stem
    /\ info.code_type = "SCENE_MOVIE_ID"

\* The letters before the dash of a candidate, and whether it is acceptable
LetterPrefix(code) == Slice(code, 1, Min({i \in 1..Len(code) : code[i] = "-"}) - 1)
Acceptable(code) ==
    /\ StrUpper(LetterPrefix(code)) # <<"W","E","B","D","L">>
    /\ NumPart(code) \notin forbidden_resolutions

\* The positions of the acceptable candidates of the stem
AcceptablePositions ==
    {i \in 1..Len(JavFindAll(stem, 1)) : Acceptable(JavFindAll(stem, 1)[i])}

\* C4: when the catalog stage runs (no id tag in the stem), the code is the
\* first acceptable candidate in upper case, of type JAV, whatever candidates
\* come before or after it; with no acceptable candidate the type is not JAV.
C4_FirstAcceptableCandidate ==
    (parsed /\ TagsInStem = {}) =>
        IF AcceptablePositions # {}
        THEN /\ info.jav_code = StrUpper(JavFindAll(stem, 1)[Min(AcceptablePositions)])
             /\ info.code_type = "JAV"
        ELSE info.code_type # "JAV"

\* A parsed stem whose first candidate is rejected and whose second and third
\* are acceptable and differ
C4_Witness ==
    /\ parsed /\ TagsInStem = {}
    /\ AcceptablePositions = {2, 3}
    /\ JavFindAll(stem, 1)[2] # JavFindAll(stem, 1)[3]

----------------------------------------------------------------------------
(* Properties of replace_abbreviations (SpecAbbr)                           *)

StartsWith(t, lit) == Len(lit) <= Len(t) /\ SubSeq(t, 1, Len(lit)) = lit

\* The entries whose pattern matches at the start of the text given
MatchingEntries == {i \in DOMAIN abbrevs : StartsWith(arg, abbrevs[i].abbreviation)}

\* C10: the entries are tested in table order; the first that matches at the
\* start has its match replaced by its canonical text, once, and no later
\* entry is tested or applied; with no match the text is returned as given.
C10_FirstMatchOnly ==
    /\ applied \subseteq tested
    /\ Cardinality(applied) <= 1
    /\ tested \subseteq (IF MatchingEntries = {} THEN DOMAIN abbrevs
                          ELSE 1..Min(MatchingEntries))
    /\ done =>
          IF MatchingEntries = {}
          THEN text = arg /\ applied = {} /\ tested = DOMAIN abbrevs
          ELSE LET i == Min(MatchingEntries)
               IN  /\ text = abbrevs[i].full
                             \o Slice(arg, Len(abbrevs[i].abbreviation) + 1, Len(arg))
                   /\ applied = {i}
                   /\ tested = 1..i

\* The first entry was applied, the second matches the text given and the
\* text returned as well, and was not applied
C10_Witness ==
    /\ done /\ applied = {1} /\ Len(abbrevs) >= 2
    /\ StartsWith(arg, abbrevs[2].abbreviation)
    /\ StartsWith(text, abbrevs[2].abbreviation)
    /\ abbrevs[2].full # abbrevs[2].abbreviation

----------------------------------------------------------------------------
(* Properties of PartialFormatter (SpecFmt, SpecConc)                       *)

\* The format_field calls made so far, each with the render that made it
Calls == UNION {{<<r, i>> : i \in 1..Len(log[r])} : r \in DOMAIN log}
Call(c) == log[c[1]][c[2]]

\* The value is absent (no value in the context) or empty
AbsentOrEmpty(value) ==
    \/ value.t = "none"
    \/ value.t = "str" /\ Len(value.v) = 0
    \/ value.t = "list" /\ value.v = <<"[","]">>

\* C5 as stated: a render never gets past get_field for a field name that
\* is not in supported_keys, with or without a value for it in the context.
C5_UnsupportedFieldFails ==
    \A r \in DOMAIN renders :
        renders[r].pc \in {"spec", "fmt", "done"} => Field(r).name \in supported_keys

\* C6 as stated: an error raised by the try body of format_field gives
\* bad_fmt as the result when bad_fmt is not empty, and is raised to the
\* caller when it is.
C6_SpecErrorsGiveBadFmt ==
    \A c \in Calls :
        Call(c).res.tried \notin {"none", "ok"} =>
            IF bad_fmt # << >>
            THEN Call(c).res.status = "ok" /\ Call(c).res.out = bad_fmt
            ELSE Call(c).res.status = Call(c).res.tried

\* C7 as stated: format_field hands to the format spec, for the field name
\* with a string value that is not empty, the value sanitized, collapsed and
\* cut to MAX_NAME_LENGTH, whatever the format spec; and for any other field
\* the value as it is.
C7_NameAlwaysSanitized ==
    \A c \in Calls :
        /\ (Call(c).field = "name" /\ Call(c).value.t = "str" /\ Call(c).value.v # << >>)
               => /\ Call(c).res.reached = StrVal(sanitized_name(Call(c).value.v))
                  /\ Len(Call(c).res.reached.v) <= MAX_NAME_LENGTH
        /\ Call(c).field # "name" => Call(c).res.reached = Call(c).value

C9_RendersIndependent ==
    \A c \in Calls :
        Call(c).res = format_field(Call(c).value, Call(c).spec, Call(c).field,
                                   missing, bad_fmt)

====
